---- MODULE Spec2Model ----
(***************************************************************************)
(* Model of makakatool.cpp: the MAKAKA archive container.                  *)
(*                                                                         *)
(* createArchive writes a byte stream (header + entry records),            *)
(* extractArchive and listArchiveContents parse a byte stream.  Streams    *)
(* are sequences of bytes (0..255); every integer field is encoded         *)
(* little-endian with the width the code uses.  The archive on disk is any *)
(* file: besides streams written by createArchive the model lets the file  *)
(* be cut short or have one byte overwritten before it is read.            *)
(*                                                                         *)
(* Paths are modelled by the name bytes as the C library sees them (up to  *)
(* the first NUL); output_dir is a fixed existing prefix.                  *)
(***************************************************************************)
EXTENDS Integers, Sequences, FiniteSets, TLC

(* ---------------------------- bounds ----------------------------------- *)
MaxFiles == 2          \* longest list of paths handed to createArchive
MaxFileLen == 2        \* longest input file, in bytes
MaxField == 9          \* largest size/count field of a stream under test
IndetMax == 1          \* largest value an uninitialized integer is given

FileBytes == {7}       \* byte values occurring in input files
TamperBytes == {0, 3}  \* byte values an edit may store in the archive
Names == {<<97>>, <<98, 99>>}   \* "a", "bc"

(* ------------------------ program constants ---------------------------- *)
MAKAKA_SIGNATURE == 1296780097     \* 0x4D4B4B41
MAKAKA_VERSION == 256              \* 0x0100
COMPRESS_NONE == 0
COMPRESS_LZMA == 1
COMPRESS_ZSTD == 2
ZstdMagic == 40        \* first byte of a zstd frame (0xFD2FB528, LE)
XzMagic == 253         \* first byte of an xz stream (FD 37 7A 58 5A 00)

(* --------------------------- byte helpers ------------------------------ *)
Min(a, b) == IF a < b THEN a ELSE b

Take(s, n) == SubSeq(s, 1, Min(n, Len(s)))

Drop(s, n) == SubSeq(s, Min(n, Len(s)) + 1, Len(s))

Zeros(n) == [i \in 1..n |-> 0]

\* out.write(reinterpret_cast<const char*>(&x), w): w bytes, little-endian
RECURSIVE LE(_, _)
LE(n, w) == IF w = 0 THEN <<>> ELSE <<n % 256>> \o LE(n \div 256, w - 1)

\* in.read(reinterpret_cast<char*>(&x), w) on w bytes that were read
RECURSIVE LEdecode(_)
LEdecode(bs) == IF bs = <<>> THEN 0 ELSE bs[1] + 256 * LEdecode(Tail(bs))

\* the same value, saturated at Cap (used to decide whether a stream is in
\* the range the model represents, without overflowing)
Cap == 100000
RECURSIVE LEdecodeSat(_)
LEdecodeSat(bs) ==
    IF bs = <<>> THEN 0
    ELSE LET r == LEdecodeSat(Tail(bs))
         IN  IF r >= Cap THEN Cap ELSE Min(bs[1] + 256 * r, Cap)

\* path.c_str(): the bytes up to the first NUL
RECURSIVE CStr(_)
CStr(s) == IF s = <<>> \/ s[1] = 0 THEN <<>> ELSE <<s[1]>> \o CStr(Tail(s))

(* ------------------------------ codecs --------------------------------- *)
\* Run-length pairs <<count, byte>> of the maximal runs of b.
RECURSIVE RunLen(_, _)
RunLen(b, x) == IF b = <<>> \/ b[1] # x THEN 0 ELSE 1 + RunLen(Tail(b), x)

RECURSIVE Runs(_)
Runs(b) ==
    IF b = <<>> THEN <<>>
    ELSE LET n == RunLen(b, b[1])
         IN  <<n, b[1]>> \o Runs(Drop(b, n))

RECURSIVE Expand(_)
Expand(p) ==
    IF Len(p) < 2 THEN <<>>
    ELSE [i \in 1..p[1] |-> p[2]] \o Expand(Drop(p, 2))

\* compressWithZSTD: one frame, <<magic, number of runs>> then the runs.
compressWithZSTD(input) ==
    <<ZstdMagic, Len(Runs(input)) \div 2>> \o Runs(input)

\* ZSTD_decompress(dst, dstCapacity, src, srcSize): decodes every frame in
\* src; the result is an error or the decoded bytes.  An empty src holds no
\* frame and decodes to nothing.
RECURSIVE ZSTD_decompress(_, _)
ZSTD_decompress(dstCapacity, src) ==
    IF src = <<>> THEN [error |-> FALSE, bytes |-> <<>>]
    ELSE IF Len(src) < 2 \/ src[1] # ZstdMagic \/ Len(src) < 2 + 2 * src[2]
    THEN [error |-> TRUE, bytes |-> <<>>]
    ELSE LET body == Expand(SubSeq(src, 3, 2 + 2 * src[2]))
         IN  IF Len(body) > dstCapacity
             THEN [error |-> TRUE, bytes |-> <<>>]
             ELSE LET rest == ZSTD_decompress(dstCapacity - Len(body),
                                              Drop(src, 2 + 2 * src[2]))
                  IN  IF rest.error THEN rest
                      ELSE [error |-> FALSE, bytes |-> body \o rest.bytes]

\* decompressZSTD had it resized its buffer to the decoded length
decompressZSTD_Resized(input, original_size) ==
    LET result == ZSTD_decompress(original_size, input)
    IN  IF result.error THEN [error |-> TRUE, bytes |-> <<>>]
        ELSE [error |-> FALSE, bytes |-> result.bytes]

\* decompressZSTD: a zero-filled buffer of original_size bytes, the decoded
\* bytes at its start; the decoded length is not compared to original_size.
decompressZSTD(input, original_size) ==
    LET result == ZSTD_decompress(original_size, input)
    IN  IF result.error THEN [error |-> TRUE, bytes |-> <<>>]
        ELSE [error |-> FALSE,
              bytes |-> result.bytes \o Zeros(original_size - Len(result.bytes))]

\* The complete xz stream of input: magic, literal bytes, check byte.
XzStream(input) ==
    <<XzMagic>> \o [i \in 1..Len(input) |-> (input[i] + 1) % 256]
                \o <<Len(input) % 256>>

\* compressWithLZMA: the output buffer holds input.size() * 1.5 bytes and
\* the return code of lzma_code is ignored, so the stream is cut there.
compressWithLZMA(input) == Take(XzStream(input), (Len(input) * 3) \div 2)

\* the switch of createArchive with ZSTD as its default branch
Compress_DefaultZstd(compression, file_data) ==
    CASE compression = COMPRESS_LZMA -> compressWithLZMA(file_data)
      [] OTHER -> compressWithZSTD(file_data)

\* the switch of createArchive
Compress(compression, file_data) ==
    CASE compression = COMPRESS_LZMA -> compressWithLZMA(file_data)
      [] compression = COMPRESS_ZSTD -> compressWithZSTD(file_data)
      [] OTHER -> file_data

(* ------------------------- createArchive ------------------------------- *)
\* A file of the input filesystem: unreadable, or its bytes.
RECURSIVE SeqsUpTo(_, _)
SeqsUpTo(S, n) ==
    IF n = 0 THEN {<<>>}
    ELSE LET shorter == SeqsUpTo(S, n - 1)
         IN  shorter \cup {<<x>> \o t : x \in S, t \in {u \in shorter : Len(u) = n - 1}}

FileStates ==
    {[readable |-> FALSE, data |-> <<>>]}
        \cup {[readable |-> TRUE, data |-> d] : d \in SeqsUpTo(FileBytes, MaxFileLen)}

\* uint32_t v = n: every length of the model is far below 2^32 (TLC's
\* integers end at 2^31 - 1), so the conversion keeps the value
U32(n) == n

\* signature, version, compression, file_count = files.size()
Header(nfiles, compression) ==
    LE(MAKAKA_SIGNATURE, 4) \o LE(MAKAKA_VERSION, 2)
        \o LE(compression, 2) \o LE(U32(nfiles), 4)

\* the entry record with the two size fields written in the other order
EntryRecord_SizesSwapped(file_path, file_data, compression) ==
    LET compressed_data == Compress(compression, file_data)
    IN  LE(U32(Len(file_path)), 4) \o file_path
            \o LE(Len(compressed_data), 8) \o LE(Len(file_data), 8)
            \o compressed_data

\* name_length, name, original_size, compressed_size, payload
EntryRecord(file_path, file_data, compression) ==
    LET compressed_data == Compress(compression, file_data)
    IN  LE(U32(Len(file_path)), 4) \o file_path
            \o LE(Len(file_data), 8) \o LE(Len(compressed_data), 8)
            \o compressed_data

\* the for loop of createArchive leaving the loop at an unreadable path
RECURSIVE WriteEntries_Break(_, _, _)
WriteEntries_Break(paths, fsys, compression) ==
    IF paths = <<>> \/ ~fsys[paths[1]].readable THEN <<>>
    ELSE EntryRecord(paths[1], fsys[paths[1]].data, compression)
            \o WriteEntries_Break(Tail(paths), fsys, compression)

\* the for loop of createArchive walking the paths from the last to the first
RECURSIVE WriteEntries_Reversed(_, _, _)
WriteEntries_Reversed(paths, fsys, compression) ==
    IF paths = <<>> THEN <<>>
    ELSE WriteEntries_Reversed(Tail(paths), fsys, compression)
            \o (IF fsys[paths[1]].readable
                THEN EntryRecord(paths[1], fsys[paths[1]].data, compression)
                ELSE <<>>)

\* the for loop of createArchive: an unreadable path is skipped (continue)
RECURSIVE WriteEntries(_, _, _)
WriteEntries(paths, fsys, compression) ==
    IF paths = <<>> THEN <<>>
    ELSE IF ~fsys[paths[1]].readable
    THEN WriteEntries(Tail(paths), fsys, compression)
    ELSE EntryRecord(paths[1], fsys[paths[1]].data, compression)
            \o WriteEntries(Tail(paths), fsys, compression)

createArchive(paths, fsys, compression) ==
    Header(Len(paths), compression) \o WriteEntries(paths, fsys, compression)

\* number of compress calls createArchive makes
RECURSIVE CompressCalls(_, _, _)
CompressCalls(paths, fsys, compression) ==
    IF paths = <<>> THEN <<>>
    ELSE (IF fsys[paths[1]].readable /\ compression \in {COMPRESS_LZMA, COMPRESS_ZSTD}
          THEN <<[op |-> "pack", fn |-> "compress"]>> ELSE <<>>)
            \o CompressCalls(Tail(paths), fsys, compression)

(* ------------------------------ state ---------------------------------- *)
VARIABLES
    disk,        \* input filesystem: path -> file state
    files,       \* the path list createArchive was called with
    compression, \* the codec createArchive was called with
    archive,     \* bytes of the archive file
    phase,       \* "start" | "ready" (an archive file exists)
    edited,      \* "no" | "cut" | "byte": how the file was changed after packing
    calls,       \* log of codec calls: [op, fn]
    x,           \* extractArchive: [pc, in, version, compression, file_count, i, error]
    seen,        \* extractArchive: the {name, original_size, compressed_size} it read
    writes,      \* extractArchive: files written, [entry, path, data], in order
    dirs,        \* extractArchive: number of create_directories calls
    l,           \* listArchiveContents: [pc, in, version, compression, file_count, i, error]
    lines,       \* listArchiveContents: header lines printed (0 or 4)
    listed       \* listArchiveContents: the entry lines printed

vars == <<disk, files, compression, archive, phase, edited, calls,
          x, seen, writes, dirs, l, lines, listed>>

packVars == <<disk, files, compression>>
extractVars == <<x, seen, writes, dirs>>
listVars == <<l, lines, listed>>

Stream0 == [pos |-> 0, good |-> TRUE]

IdleX == [pc |-> "idle", in |-> Stream0, version |-> 0, compression |-> 0,
          file_count |-> 0, i |-> 0, error |-> "none"]

IdleL == [pc |-> "idle", in |-> Stream0, version |-> 0, compression |-> 0,
          file_count |-> 0, i |-> 0, error |-> "none"]

Init ==
    /\ disk \in [Names -> FileStates]
    /\ files = <<>>
    /\ compression = COMPRESS_NONE
    /\ archive = <<>>
    /\ phase = "start"
    /\ edited = "no"
    /\ calls = <<>>
    /\ x = IdleX
    /\ seen = <<>>
    /\ writes = <<>>
    /\ dirs = 0
    /\ l = IdleL
    /\ lines = 0
    /\ listed = <<>>

\* pack: createArchive(files, output, compression).  A file the call does not
\* name is never opened: only the filesystems without such files are taken.
Pack ==
    /\ phase = "start"
    /\ \E paths \in SeqsUpTo(Names, MaxFiles),
          c \in {COMPRESS_NONE, COMPRESS_LZMA, COMPRESS_ZSTD} :
            /\ \A n \in Names :
                    disk[n].readable => \E i \in 1..Len(paths) : paths[i] = n
            /\ files' = paths
            /\ compression' = c
            /\ archive' = createArchive(paths, disk, c)
            /\ calls' = calls \o CompressCalls(paths, disk, c)
    /\ phase' = "ready"
    /\ UNCHANGED <<disk, edited, x, seen, writes, dirs, l, lines, listed>>

(* --------------------------- std::ifstream ----------------------------- *)
\* in.read(buf, n) succeeds when the stream is good and n bytes remain
ReadOk(s, in, n) == in.good /\ (n = 0 \/ in.pos + n <= Len(s))

\* the bytes in.read(buf, n) stores into buf
Avail(s, in, n) ==
    IF in.good /\ in.pos < Len(s)
    THEN SubSeq(s, in.pos + 1, Min(in.pos + n, Len(s)))
    ELSE <<>>

\* the stream after in.read(buf, n): failbit is sticky
AfterRead(s, in, n) ==
    IF ReadOk(s, in, n) THEN [pos |-> in.pos + n, good |-> TRUE]
    ELSE [pos |-> in.pos, good |-> FALSE]

\* in.read(&v, w) stores nothing into v: v keeps its uninitialized value
Fresh(s, in, w) == ~ReadOk(s, in, w) /\ Avail(s, in, w) = <<>>

\* Value of an integer variable after in.read(&v, w).  v is not initialized:
\* when nothing is read its value is indeterminate, g; when only the low
\* bytes are read the other bytes are taken as zero.  The locals of one call
\* share a stack frame, and one indeterminate value g (any of 0..IndetMax,
\* chosen per call) stands for its content during that call.
ReadInt(s, in, w, g) == IF Fresh(s, in, w) THEN g ELSE LEdecode(Avail(s, in, w))

\* the signature check comparing only the first byte of the stream
ReadSignature_FirstByte(s, in) ==
    IF Avail(s, in, 1) = Take(LE(MAKAKA_SIGNATURE, 4), 1)
    THEN {MAKAKA_SIGNATURE} ELSE {0}

\* Values of signature after in.read(&signature, 4): on a short stream the
\* bytes not read are indeterminate and may or may not complete the magic.
ReadSignature(s, in) ==
    LET a == Avail(s, in, 4)
    IN  IF ReadOk(s, in, 4) THEN {LEdecode(a)}
        ELSE {LEdecode(a)}
                \cup (IF a = Take(LE(MAKAKA_SIGNATURE, 4), Len(a))
                      THEN {MAKAKA_SIGNATURE} ELSE {})

\* a buffer of n zero bytes after in.read(buf, n)
ReadBytes(s, in, n) ==
    LET a == Avail(s, in, n) IN a \o Zeros(n - Len(a))

\* in.seekg(n, std::ios::cur): moves a good stream, also past the end;
\* does nothing once failbit is set
SeekCur(in, n) ==
    IF in.good THEN [pos |-> in.pos + n, good |-> TRUE] ELSE in

(* -------------------------- extractArchive ----------------------------- *)
\* the reader decoding the payload for LZMA as well
Decode_BothCodecs(hdr_compression, compressed_data, original_size) ==
    IF hdr_compression \in {COMPRESS_LZMA, COMPRESS_ZSTD}
    THEN decompressZSTD(compressed_data, original_size)
    ELSE [error |-> FALSE, bytes |-> compressed_data]

\* the bytes written for one entry: decoded for ZSTD, the payload otherwise
Decode(hdr_compression, compressed_data, original_size) ==
    IF hdr_compression = COMPRESS_ZSTD
    THEN decompressZSTD(compressed_data, original_size)
    ELSE [error |-> FALSE, bytes |-> compressed_data]

DecodeCalls(hdr_compression) ==
    IF hdr_compression = COMPRESS_ZSTD
    THEN <<[op |-> "extract", fn |-> "decompress"]>> ELSE <<>>

\* lines 150-179: one iteration of the entry loop, on the state
\* st = [in, i, pc, error, seen, writes, dirs, calls] of the call
ExtractEntry(s, hdr_compression, g, st) ==
    LET name_length == ReadInt(s, st.in, 4, g)
        in1 == AfterRead(s, st.in, 4)
        file_name == ReadBytes(s, in1, name_length)
        in2 == AfterRead(s, in1, name_length)
        original_size == ReadInt(s, in2, 8, g)
        in3 == AfterRead(s, in2, 8)
        compressed_size == ReadInt(s, in3, 8, g)
        in4 == AfterRead(s, in3, 8)
        compressed_data == ReadBytes(s, in4, compressed_size)
        in5 == AfterRead(s, in4, compressed_size)
        file_data == Decode(hdr_compression, compressed_data, original_size)
        path == CStr(file_name)
        read == [st EXCEPT
                    !.in = in5,
                    !.seen = Append(st.seen,
                                [name |-> file_name,
                                 original_size |-> original_size,
                                 compressed_size |-> compressed_size]),
                    !.calls = st.calls \o DecodeCalls(hdr_compression)]
    IN  IF file_data.error
        THEN [read EXCEPT !.pc = "error", !.error = "codec"]
        ELSE [read EXCEPT
                !.i = st.i + 1,
                !.dirs = st.dirs + 1,
                !.writes = IF path = <<>> THEN st.writes
                           ELSE Append(st.writes, [entry |-> st.i + 1,
                                                   path |-> path,
                                                   data |-> file_data.bytes])]

\* line 149: for (i = 0; i < file_count; ++i), left early by a throw
RECURSIVE ExtractLoop(_, _, _, _, _)
ExtractLoop(s, hdr_compression, file_count, g, st) ==
    IF st.pc = "error" THEN st
    ELSE IF st.i >= file_count THEN [st EXCEPT !.pc = "done"]
    ELSE ExtractLoop(s, hdr_compression, file_count, g,
                     ExtractEntry(s, hdr_compression, g, st))

\* unpack: extractArchive(archive, output_dir)
Extract ==
    /\ phase = "ready" /\ x.pc = "idle" /\ l.pc = "idle"
    /\ \E signature \in ReadSignature(archive, Stream0), g \in 0..IndetMax :
        LET in1 == AfterRead(archive, Stream0, 4)
            version == ReadInt(archive, in1, 2, g)
            in2 == AfterRead(archive, in1, 2)
            comp == ReadInt(archive, in2, 2, g)
            in3 == AfterRead(archive, in2, 2)
            file_count == ReadInt(archive, in3, 4, g)
        IN
        IF signature # MAKAKA_SIGNATURE
        THEN /\ x' = [x EXCEPT !.pc = "error", !.in = in1, !.error = "format"]
             /\ UNCHANGED <<calls, seen, writes, dirs>>
        ELSE \E st \in {ExtractLoop(archive, comp, file_count, g,
                              [in |-> AfterRead(archive, in3, 4), i |-> 0,
                               pc |-> "entries", error |-> "none",
                               seen |-> seen, writes |-> writes,
                               dirs |-> dirs, calls |-> calls])} :
             /\ x' = [pc |-> st.pc, in |-> st.in, version |-> version,
                      compression |-> comp, file_count |-> file_count,
                      i |-> st.i, error |-> st.error]
             /\ seen' = st.seen
             /\ writes' = st.writes
             /\ dirs' = st.dirs
             /\ calls' = st.calls
    /\ UNCHANGED <<packVars, archive, phase, edited, listVars>>

(* ------------------------ listArchiveContents -------------------------- *)
\* the listing reading the payload and decoding it
ListPayload_Decoding(in, compressed_size) ==
    [in |-> SeekCur(in, compressed_size),
     calls |-> <<[op |-> "list", fn |-> "decompress"]>>]

\* line 224: the payload is skipped, not read: no codec call is made
ListPayload(in, compressed_size) ==
    [in |-> SeekCur(in, compressed_size), calls |-> <<>>]

\* lines 211-224: one iteration of the entry loop, on the state
\* st = [in, i, listed, calls] of the call
ListEntry(s, g, st) ==
    LET name_length == ReadInt(s, st.in, 4, g)
        in1 == AfterRead(s, st.in, 4)
        file_name == ReadBytes(s, in1, name_length)
        in2 == AfterRead(s, in1, name_length)
        original_size == ReadInt(s, in2, 8, g)
        in3 == AfterRead(s, in2, 8)
        compressed_size == ReadInt(s, in3, 8, g)
        in4 == AfterRead(s, in3, 8)
        skip == ListPayload(in4, compressed_size)
    IN  [in |-> skip.in,
         i |-> st.i + 1,
         listed |-> Append(st.listed, [name |-> file_name,
                                       original_size |-> original_size,
                                       compressed_size |-> compressed_size]),
         calls |-> st.calls \o skip.calls]

\* line 210: for (i = 0; i < file_count; ++i)
RECURSIVE ListLoop(_, _, _, _)
ListLoop(s, file_count, g, st) ==
    IF st.i >= file_count THEN st
    ELSE ListLoop(s, file_count, g, ListEntry(s, g, st))

\* list: listArchiveContents(archive).  The two readers are separate runs of
\* the program on the same file; the listing is taken after the extraction
\* has returned.
List ==
    /\ phase = "ready" /\ l.pc = "idle" /\ x.pc \in {"done", "error"}
    /\ \E signature \in ReadSignature(archive, Stream0), g \in 0..IndetMax :
        LET in1 == AfterRead(archive, Stream0, 4)
            version == ReadInt(archive, in1, 2, g)
            in2 == AfterRead(archive, in1, 2)
            comp == ReadInt(archive, in2, 2, g)
            in3 == AfterRead(archive, in2, 2)
            file_count == ReadInt(archive, in3, 4, g)
        IN
        IF signature # MAKAKA_SIGNATURE
        THEN /\ l' = [l EXCEPT !.pc = "error", !.in = in1, !.error = "format"]
             /\ UNCHANGED <<lines, listed, calls>>
        ELSE \E st \in {ListLoop(archive, file_count, g,
                           [in |-> AfterRead(archive, in3, 4), i |-> 0,
                            listed |-> listed, calls |-> calls])} :
             /\ l' = [pc |-> "done", in |-> st.in, version |-> version,
                      compression |-> comp, file_count |-> file_count,
                      i |-> st.i, error |-> "none"]
             /\ lines' = 4
             /\ listed' = st.listed
             /\ calls' = st.calls
    /\ UNCHANGED <<packVars, archive, phase, edited, extractVars>>

(* ----------------------- the archive file on disk ---------------------- *)
\* value of the w-byte field at offset pos, missing bytes taken as zero
At(s, pos, w) ==
    IF pos >= Len(s) THEN 0
    ELSE LEdecodeSat(SubSeq(s, pos + 1, Min(pos + w, Len(s))))

\* the size fields the entry loop decodes on s, from offset pos, for n entries
RECURSIVE EntryFields(_, _, _)
EntryFields(s, pos, n) ==
    IF n = 0 THEN {}
    ELSE LET nl == At(s, pos, 4)
             os == At(s, pos + 4 + nl, 8)
             cs == At(s, pos + 12 + nl, 8)
         IN  IF nl > MaxField THEN {nl}
             ELSE IF cs > MaxField \/ pos + 20 + nl + cs > Len(s)
             THEN {nl, os, cs}
             ELSE {nl, os, cs} \cup EntryFields(s, pos + 20 + nl + cs, n - 1)

\* the streams the model reads: every count and size field at most MaxField
InRange(s) ==
    /\ At(s, 6, 2) <= MaxField
    /\ At(s, 8, 4) <= MaxField
    /\ \A v \in EntryFields(s, 12, At(s, 8, 4)) : v <= MaxField

CanEdit ==
    /\ phase = "ready" /\ edited = "no" /\ x.pc = "idle" /\ l.pc = "idle"

\* the archive file is cut short
Truncate ==
    /\ CanEdit
    /\ \E n \in 0..(Len(archive) - 1) :
        /\ InRange(Take(archive, n))
        /\ archive' = Take(archive, n)
    /\ edited' = "cut"
    /\ UNCHANGED <<packVars, phase, calls, extractVars, listVars>>

\* one byte of the archive file is changed
Overwrite ==
    /\ CanEdit
    /\ \E pos \in 1..Len(archive), v \in TamperBytes :
        /\ v # archive[pos]
        /\ InRange([archive EXCEPT ![pos] = v])
        /\ archive' = [archive EXCEPT ![pos] = v]
    /\ edited' = "byte"
    /\ UNCHANGED <<packVars, phase, calls, extractVars, listVars>>

Next ==
    \/ Pack
    \/ Truncate
    \/ Overwrite
    \/ Extract
    \/ List

Spec == Init /\ [][Next]_vars

(* ------------------- definitions used by the properties ---------------- *)
Magic == LE(MAKAKA_SIGNATURE, 4)

HasMagic(s) == Len(s) >= 4 /\ Take(s, 4) = Magic

Finished(r) == r.pc \in {"done", "error"}

AllReadable == \A i \in 1..Len(files) : disk[files[i]].readable

\* the readable paths of the call, in input order
ReadablePaths == SelectSeq(files, LAMBDA f : disk[f].readable)

\* the archive file is the stream createArchive wrote
Untouched == phase = "ready" /\ edited = "no"

\* An independent reading of an entry area: the records that fill it exactly
\* (a record with original_size -1 marks bytes that are no whole record).
NoRecord == [name |-> <<>>, original_size |-> -1, compressed_size |-> -1,
             payload |-> <<>>]

RECURSIVE ParseRecords(_)
ParseRecords(s) ==
    IF s = <<>> THEN <<>>
    ELSE IF Len(s) < 4 \/ Len(s) < 20 + At(s, 0, 4) THEN <<NoRecord>>
    ELSE LET nl == At(s, 0, 4)
             os == At(s, 4 + nl, 8)
             cs == At(s, 12 + nl, 8)
         IN  IF Len(s) < 20 + nl + cs THEN <<NoRecord>>
             ELSE <<[name |-> SubSeq(s, 5, 4 + nl),
                     original_size |-> os, compressed_size |-> cs,
                     payload |-> SubSeq(s, 21 + nl, 20 + nl + cs)]>>
                    \o ParseRecords(Drop(s, 20 + nl + cs))

EntryArea == Drop(archive, 12)

\* entry_count as stored in the header
Declared(s) == At(s, 8, 4)

\* Number of leading entries, of the n declared, that lie within s from
\* offset pos: their name and size fields, and (whole) also their payload.
RECURSIVE CountPresent(_, _, _, _)
CountPresent(s, pos, n, whole) ==
    IF n = 0 \/ pos + 4 > Len(s) THEN 0
    ELSE LET nl == At(s, pos, 4)
             cs == At(s, pos + 12 + nl, 8)
         IN  IF pos + 20 + nl > Len(s) THEN 0
             ELSE IF pos + 20 + nl + cs > Len(s) THEN (IF whole THEN 0 ELSE 1)
             ELSE 1 + CountPresent(s, pos + 20 + nl + cs, n - 1, whole)

FieldsPresent(s) == IF Len(s) < 12 THEN 0 ELSE CountPresent(s, 12, Declared(s), FALSE)

WholePresent(s) == IF Len(s) < 12 THEN 0 ELSE CountPresent(s, 12, Declared(s), TRUE)

\* the stream holds its header and every entry it declares
Complete(s) == Len(s) >= 12 /\ WholePresent(s) = Declared(s)

\* the filesystem after extraction: a later write to a path replaces it
FileExists(path) == \E k \in 1..Len(writes) : writes[k].path = path

FileData(path) ==
    LET k == CHOOSE k \in 1..Len(writes) :
                /\ writes[k].path = path
                /\ \A j \in (k + 1)..Len(writes) : writes[j].path # path
    IN  writes[k].data

ListCalls == SelectSeq(calls, LAMBDA c : c.op = "list")

ExtractCalls == SelectSeq(calls, LAMBDA c : c.op = "extract")

(* ------------------------------ properties ----------------------------- *)

\* C1: round trip.  When every input path is readable and the codec is None
\* or ZSTD, extracting the stream createArchive wrote ends without error and
\* leaves, for every input file, a file under its name holding exactly the
\* input file's bytes.
C1_RoundTrip ==
    (Untouched /\ AllReadable /\ compression \in {COMPRESS_NONE, COMPRESS_ZSTD}
        /\ Finished(x))
    => /\ x.pc = "done"
       /\ \A i \in 1..Len(files) :
            /\ FileExists(CStr(files[i]))
            /\ FileData(CStr(files[i])) = disk[files[i]].data

C1_Witness ==
    /\ Untouched /\ AllReadable /\ compression = COMPRESS_ZSTD
    /\ x.pc = "done" /\ Len(files) = 2 /\ files[1] # files[2]
    /\ Len(disk[files[1]].data) = 2
    /\ FileData(CStr(files[1])) = disk[files[1]].data
    /\ FileData(CStr(files[2])) = disk[files[2]].data

\* C2: in every archive createArchive produces the header's entry_count
\* equals the number of entry records in the stream, the number of readable
\* input paths.
C2_EntryCountMatchesRecords ==
    Untouched
    => /\ Declared(archive) = Len(ParseRecords(EntryArea))
       /\ Declared(archive) = Len(ReadablePaths)

\* C3 as stated: on every stream that begins with the magic signature, the
\* triples listArchiveContents reports are exactly the triples
\* extractArchive reads, and listing calls no codec.  (Stated for the
\* streams that hold every entry they declare, where no indeterminate value
\* is read.)
C3_SameTriplesAlways ==
    (phase = "ready" /\ HasMagic(archive) /\ Complete(archive)
        /\ Finished(x) /\ Finished(l))
    => /\ listed = seen
       /\ ListCalls = <<>>

\* C3 amended: on every stream that begins with the magic signature, listing
\* calls no codec; for every entry whose name and size fields lie within the
\* stream, the triple listed equals the triple extractArchive reads at that
\* position whenever both reach it; when the stream holds its 12-byte
\* header, extractArchive reads no more entries than are listed, and the two
\* sequences are equal when extractArchive returns without error and every
\* declared entry is wholly present.
C3_ListMatchesExtract ==
    (phase = "ready" /\ HasMagic(archive))
    => /\ ListCalls = <<>>
       /\ \A i \in 1..Min(Len(seen), Len(listed)) :
            i <= FieldsPresent(archive) => listed[i] = seen[i]
       /\ (Len(archive) >= 12 /\ Finished(x) /\ Finished(l))
            => /\ Len(seen) <= Len(listed)
               /\ (x.pc = "done" /\ Complete(archive)) => listed = seen

C3_Witness ==
    /\ phase = "ready" /\ HasMagic(archive) /\ Complete(archive)
    /\ x.pc = "done" /\ l.pc = "done"
    /\ x.compression = COMPRESS_ZSTD
    /\ Len(listed) = 2 /\ listed = seen
    /\ listed[1].compressed_size > 0
    /\ listed[1].name # listed[2].name

\* C4: an unreadable path does not abort createArchive: the entry area of
\* the stream is exactly the records of the readable paths, in input order,
\* each with its own name, sizes and payload, and nothing else.
C4_SkipUnreadable ==
    Untouched
    => LET recs == ParseRecords(EntryArea) IN
       /\ Len(recs) = Len(ReadablePaths)
       /\ \A i \in 1..Len(recs) :
            /\ recs[i].name = ReadablePaths[i]
            /\ recs[i].original_size = Len(disk[ReadablePaths[i]].data)
            /\ recs[i].payload = Compress(compression, disk[ReadablePaths[i]].data)
            /\ recs[i].compressed_size = Len(recs[i].payload)

C4_Witness ==
    /\ Untouched /\ Len(files) = 2
    /\ ~disk[files[1]].readable /\ disk[files[2]].readable
    /\ Len(disk[files[2]].data) > 0
    /\ Len(ParseRecords(EntryArea)) = 1
    /\ ParseRecords(EntryArea)[1].name = files[2]

\* C5: entry order is preserved: listing the archive built from readable
\* files ends without error and yields the names in input order.
C5_OrderPreserved ==
    (Untouched /\ AllReadable /\ Finished(l))
    => /\ l.pc = "done"
       /\ Len(listed) = Len(files)
       /\ \A i \in 1..Len(files) : listed[i].name = files[i]

C5_Witness ==
    /\ Untouched /\ AllReadable /\ l.pc = "done"
    /\ Len(files) = 2 /\ files[1] # files[2]
    /\ listed[1].name = files[1] /\ listed[2].name = files[2]

\* C6: format rejection: when the first 4 bytes of the stream are not the
\* magic signature, extractArchive and listArchiveContents fail with a
\* format error: no entry is read, no directory or file is created, no
\* line is printed.
C6_FormatRejection ==
    (phase = "ready" /\ Len(archive) >= 4 /\ ~HasMagic(archive))
    => /\ x.pc # "idle" =>
            /\ x.pc = "error" /\ x.error = "format"
            /\ seen = <<>> /\ writes = <<>> /\ dirs = 0
            /\ ExtractCalls = <<>>
       /\ l.pc # "idle" =>
            /\ l.pc = "error" /\ l.error = "format"
            /\ lines = 0 /\ listed = <<>>

C6_Witness ==
    /\ phase = "ready" /\ Len(archive) > 12 /\ ~HasMagic(archive)
    /\ x.pc = "error" /\ x.error = "format"
    /\ l.pc = "error" /\ l.error = "format"

\* C7: a truncated stream is rejected: when a stream with a valid signature
\* ends before the entries it declares are all present, extractArchive and
\* listArchiveContents do not complete, and extractArchive writes no file
\* for an entry that is not wholly in the stream.  (Stated for a stream cut
\* from an archive of readable files inside the payload of its last entry,
\* where no indeterminate value is read.)
C7_TruncatedRejected ==
    (phase = "ready" /\ edited = "cut" /\ AllReadable /\ HasMagic(archive)
        /\ Len(archive) >= 12 /\ FieldsPresent(archive) = Declared(archive)
        /\ ~Complete(archive))
    => /\ x.pc # "done"
       /\ l.pc # "done"
       /\ \A k \in 1..Len(writes) : writes[k].entry <= WholePresent(archive)

C9_NoneCodec ==
    (Untouched /\ compression = COMPRESS_NONE)
    => LET recs == ParseRecords(EntryArea) IN
       /\ Len(recs) = Len(ReadablePaths)
       /\ \A i \in 1..Len(recs) :
            /\ recs[i].compressed_size = recs[i].original_size
            /\ recs[i].payload = disk[ReadablePaths[i]].data
            /\ Len(recs[i].payload) = recs[i].original_size
       /\ x.pc = "done" =>
            \A i \in 1..Len(ReadablePaths) :
                disk[ReadablePaths[i]].data = <<>>
                => /\ FileExists(CStr(ReadablePaths[i]))
                   /\ FileData(CStr(ReadablePaths[i])) = <<>>

C9_Witness ==
    /\ Untouched /\ compression = COMPRESS_NONE /\ x.pc = "done"
    /\ Len(files) = 1 /\ disk[files[1]].readable /\ disk[files[1]].data = <<>>
    /\ seen = <<[name |-> files[1], original_size |-> 0, compressed_size |-> 0]>>
    /\ Len(writes) = 1 /\ writes[1].data = <<>>

\* C10: the length of every file extractArchive writes is the declared
\* original_size when the header codec is ZSTD (also when the payload
\* decodes to fewer bytes: the rest stays zero and no error is raised) and
\* the declared compressed_size for every other codec value.
C10_LengthFromDeclaredSize ==
    \A k \in 1..Len(writes) :
        /\ writes[k].entry <= Len(seen)
        /\ Len(writes[k].data) =
                IF x.compression = COMPRESS_ZSTD
                THEN seen[writes[k].entry].original_size
                ELSE seen[writes[k].entry].compressed_size

C10_Witness ==
    /\ x.pc = "done" /\ x.compression = COMPRESS_ZSTD /\ edited = "byte"
    /\ Len(writes) = 1
    /\ seen[1].original_size = 3
    /\ writes[1].data = <<7, 7, 0>>

====
